---- MODULE Spec2Model ----
(***************************************************************************)
(* Model of the resilient request engine of notion-document-store:         *)
(* NotionClient._rate_limit_delay, _determine_retry_strategy,              *)
(* _make_request and _update_response_time_metric                          *)
(* (src/src/notion_document_store/modules/notion_client.py).               *)
(*                                                                         *)
(* Each element of Calls is one call of _make_request, run as an asyncio   *)
(* task on the one event loop.  A task is only suspended at an await:      *)
(* the pacing sleep, the HTTP request and the backoff sleep.  Every action *)
(* is the code that runs between two suspension points.                    *)
(*                                                                         *)
(* Time is discrete; one tick is MinDelay-th of the 0.1 s pacing gap, so   *)
(* one second is 10 * MinDelay ticks.  The code reads time.time() only to  *)
(* take differences, so the model keeps the differences: every timestamp   *)
(* of the code is a clock holding the time elapsed since it was taken.     *)
(***************************************************************************)
EXTENDS Integers, Sequences, FiniteSets, TLC

\* ---------------------------------------------------------------- bounds
\* calls of _make_request in one run, the largest retry budget a caller
\* passes, and the longest one HTTP attempt takes (in ticks)
NumCalls == 3
MaxBudget == 2
MaxLatency == 2

\* ------------------------------------------------------ program constants
\* self._min_delay_between_requests = 0.1, in ticks
MinDelay == 2
TicksPerSecond == 10 * MinDelay
ServerBackoffCap == 60
TransportBackoffCap == 30

Calls == 1..NumCalls
\* status_code = None
NoStatus == 0

VARIABLES
    since_last_request, \* time.time() - self._last_request_time, capped at MinDelay
    metrics,            \* self.metrics
    pc,                 \* where each call is
    sleep_left,         \* what is left of the asyncio.sleep a call is suspended in
    max_retries,        \* the call's argument
    attempt,            \* the loop variable of `for attempt in range(...)`
    retry_count,        \* the local retry_count
    last_error,         \* the local last_error
    since_start,        \* time.time() - start_time
    result,             \* what the call returned or raised
    hist,               \* history of each call (observations, no effect on the code)
    obs,                \* history of the client (observations, no effect on the code)
    op,                 \* the tool invocation in progress and the outcome of the latest
    server,             \* server.py: the globals notion_client and server_metrics
    data,               \* a helper of data_types.py / notion_client.py applied to an input
    tasks               \* the tool invocations the dispatcher runs concurrently

vars == <<since_last_request, metrics, pc, sleep_left, max_retries, attempt,
          retry_count, last_error, since_start, result, hist, obs, op, server, data,
          tasks>>

\* What the request engine never touches.
above == <<op, server, data, tasks>>

\* ------------------------------------------------------------- rationals
\* average_response_time is a float; it is modelled as an exact fraction
\* <<numerator, denominator>> in lowest terms.
RECURSIVE GCD(_, _)
GCD(a, b) == IF b = 0 THEN a ELSE GCD(b, a % b)

Frac(n, d) == LET g == GCD(n, d) IN IF g = 0 THEN <<0, 1>> ELSE <<n \div g, d \div g>>

Min(a, b) == IF a < b THEN a ELSE b
Max(a, b) == IF a > b THEN a ELSE b

RECURSIVE Pow2(_)
Pow2(n) == IF n = 0 THEN 1 ELSE 2 * Pow2(n - 1)

\* ------------------------------------------------------------ the backend
Statuses == {200, 201, 400, 401, 403, 404, 429, 500}

\* The "code" field of a JSON error body.  NoCode: the field is absent
\* (error_data.get defaults to "unknown"); NullCode: it is not a string.
NoCode == "absent"
NullCode == "null"
Codes == {NoCode, "validation_error", "Gateway_Timeout", NullCode}

\* Response bodies: a JSON object, JSON that is not an object, or no JSON.
Bodies == [kind : {"object"}, code : Codes]
            \cup {[kind |-> "array", code |-> NoCode],
                  [kind |-> "text", code |-> NoCode]}

\* Retry-After: <<>> when the header is absent, else <<its characters>>.
RetryAfterHeaders == {<< >>, << <<"0">> >>, << <<"1">> >>, << <<"1", ".", "5">> >>}

Responses ==
    [status : Statuses \ {429}, body : Bodies, retry_after : {<< >>}]
        \cup [status : {429}, body : Bodies, retry_after : RetryAfterHeaders]

\* httpx exceptions of client.request: TimeoutException, NetworkError, and
\* the TransportErrors that are neither (e.g. RemoteProtocolError).
TransportFailures == {"timeout", "network", "protocol"}

\* int(str): decimal digits only (a sign, spaces and underscores left out).
Digits == <<"0", "1", "2", "3", "4", "5", "6", "7", "8", "9">>
IsDigit(ch) == \E i \in 1..10 : Digits[i] = ch
DigitValue(ch) == (CHOOSE i \in 1..10 : Digits[i] = ch) - 1
IsIntLiteral(s) == Len(s) > 0 /\ \A i \in 1..Len(s) : IsDigit(s[i])
RECURSIVE IntValue(_)
IntValue(s) == IF Len(s) = 0 THEN 0
               ELSE 10 * IntValue(SubSeq(s, 1, Len(s) - 1)) + DigitValue(s[Len(s)])

\* str.lower() and the substring tests of _determine_retry_strategy
Lower(code) == IF code = "Gateway_Timeout" THEN "gateway_timeout"
               ELSE IF code = "NETWORK_ERROR" THEN "network_error"
               ELSE code
ContainsTimeout(code) == code \in {"gateway_timeout"}
ContainsNetwork(code) == code \in {"network_error"}

\* ------------------------------------------------------- retry strategies
NO_RETRY == "no_retry"
EXPONENTIAL_BACKOFF == "exponential_backoff"
RATE_LIMIT_BACKOFF == "rate_limit_backoff"
\* error_type.lower() on a value that is not a string
AttributeError == "AttributeError"

\* (the hint is looked at before the statuses that are never retried)
determine_retry_strategy_hint_first(status_code, error_type) ==
    IF status_code = 429 THEN RATE_LIMIT_BACKOFF
    ELSE IF status_code >= 500 THEN EXPONENTIAL_BACKOFF
    ELSE IF error_type = NullCode THEN AttributeError
    ELSE IF ContainsTimeout(Lower(error_type)) \/ ContainsNetwork(Lower(error_type))
         THEN EXPONENTIAL_BACKOFF
    ELSE NO_RETRY

determine_retry_strategy(status_code, error_type) ==
    IF status_code = 429 THEN RATE_LIMIT_BACKOFF
    ELSE IF status_code >= 500 THEN EXPONENTIAL_BACKOFF
    ELSE IF status_code \in {401, 403, 404} THEN NO_RETRY
    ELSE IF error_type = NullCode THEN AttributeError
    ELSE IF ContainsTimeout(Lower(error_type)) \/ ContainsNetwork(Lower(error_type))
         THEN EXPONENTIAL_BACKOFF
    ELSE NO_RETRY

\* `if response.status_code == 200`
IsSuccessAny2xx(status_code) == status_code \in 200..299
IsSuccess(status_code) == status_code = 200

\* `if attempt < max_retries`
MayRetryOffByOne(a, budget) == a <= budget
MayRetry(a, budget) == a < budget

\* seconds slept before the retry that follows attempt a
ServerBackoff(a) == Min(Pow2(a), ServerBackoffCap)
TransportBackoffServerCap(a) == Min(Pow2(a), ServerBackoffCap)
TransportBackoff(a) == Min(Pow2(a), TransportBackoffCap)

\* ------------------------------------------------------------ exceptions
NotionAPIError(message, status_code, details) ==
    [type |-> "NotionAPIError", message |-> message,
     status_code |-> status_code, details |-> details]

OtherError(type) ==
    [type |-> type, message |-> type, status_code |-> NoStatus, details |-> "empty"]

\* the value None of last_error and of a call that has not ended
None == OtherError("None")

JsonPayload == [type |-> "json", message |-> "payload", status_code |-> 200,
                details |-> "empty"]

\* error_data: response.json(), or {"message": response.text} when that raises
ErrorDetails(body) == IF body.kind = "text" THEN "text_wrapper" ELSE "error_body"

\* the last_error of a final attempt that ended in a transport exception
FinalTransportErrorUnset(kind) == None
FinalTransportError(kind) ==
    IF kind = "timeout" THEN NotionAPIError("timeout_after_retries", NoStatus, "empty")
    ELSE NotionAPIError("network_after_retries", NoStatus, "empty")

\* `if last_error: raise last_error / else: raise NotionAPIError("Max retries ...")`
RaisedAfterLoop(err) ==
    IF err # None THEN err ELSE NotionAPIError("max_retries_exceeded", NoStatus, "empty")

\* ---------------------------------------------------------------- metrics
update_response_time_metric_stale_count(m, response_time) ==
    LET current_avg == m.average_response_time
        current_count == m.requests_success
    IN  [m EXCEPT !.average_response_time =
            Frac(current_avg[1] * current_count + response_time * current_avg[2],
                 current_avg[2] * (current_count + 1))]

update_response_time_metric(m, response_time) ==
    LET current_avg == m.average_response_time
        current_count == m.requests_success
    IN  IF current_count = 1
        THEN [m EXCEPT !.average_response_time = Frac(response_time, 1)]
        ELSE [m EXCEPT !.average_response_time =
                Frac(current_avg[1] * (current_count - 1) + response_time * current_avg[2],
                     current_avg[2] * current_count)]

\* ----------------------------------------------------------------- pacing
\* the argument of the asyncio.sleep of _rate_limit_delay, 0 when it is skipped
PacingSleepShortGap(elapsed) ==
    IF elapsed < MinDelay - 1 THEN MinDelay - elapsed ELSE 0
PacingSleep(elapsed) ==
    IF elapsed < MinDelay THEN MinDelay - elapsed ELSE 0

\* ------------------------------------------------------------------ state
\* "returned" and "raised": the call has just ended and its caller, which
\* runs on in the same step of the event loop, has not yet taken the result.
Terminal == {"returned", "raised"}
Sleeping == {"pacing", "backoff"}
Suspended == Sleeping \cup {"request"}

\* What is recorded of a call:
\*   attempts, waits   HTTP attempts dispatched, backoff sleeps begun
\*   last_outcome      how the latest attempt ended: "response", "timeout", ...
\*   last_status       the status of the latest response
\*   retry_after, code the Retry-After header of the latest response, and the
\*                     "code" of its body
\*   exhausted         the call ended at lines 245-252
\*   sample            the latency sample folded into the average, -1 if none
\*   in_flight         how long the attempt in flight has been out
\*   after_end         some call had ended when this one began,
\*   since_prev_end    and the time since the latest of them ended (while in the gate)
\*   after_leave       some call had left the gate when this one began,
\*   since_prev_leave  and the time since the latest of them left (while in the gate)
\* (the two clocks capped at MinDelay)
NoHist == [attempts |-> 0, waits |-> 0, last_outcome |-> "none", last_status |-> NoStatus,
           retry_after |-> << >>, code |-> NoCode,
           exhausted |-> FALSE, sample |-> -1, in_flight |-> 0,
           after_end |-> FALSE, since_prev_end |-> 0,
           after_leave |-> FALSE, since_prev_leave |-> 0]

\* What is recorded of the client:
\*   dispatched, since_dispatch  some call left the gate, and the time since the latest did
\*   ended, since_end            some call ended, and the time since the latest did
\*   sample_sum, successes       sum and number of the samples of the calls that
\*                               ended on a 200 response
\*   retries_taken               retry attempts of the calls that returned or raised
\*   gap_dispatch   least time between two successive first dispatches
\*   gap_end        least time from the end of a call to the first dispatch of
\*                  a call begun after that end
\*   gap_leave      least time from a call leaving the gate to the first
\*                  dispatch of a call begun after that
\*   seq_end, seq_leave   a call begun after another ended / left the gate
\*                        has been dispatched
\* (clocks and gaps capped at MinDelay)
NoObs == [dispatched |-> FALSE, since_dispatch |-> 0, ended |-> FALSE, since_end |-> 0,
          sample_sum |-> 0, successes |-> 0, retries_taken |-> 0,
          gap_dispatch |-> MinDelay, gap_end |-> MinDelay, gap_leave |-> MinDelay,
          seq_end |-> FALSE, seq_leave |-> FALSE]

\* No tool has been invoked, no helper applied.
\* op.last is what is recorded of the latest tool invocation that is over.
Tools == {"add_document", "search_documents", "get_document"}
NoLast == [kind |-> "none"]
NoPage == [kind |-> "none", res |-> None]
NoOp == [stage |-> "idle", count |-> 0, last |-> NoLast]
NoServer == [notion_client |-> FALSE, requests_total |-> 0, requests_success |-> 0,
             requests_failed |-> 0, tools_called |-> [t \in Tools |-> 0]]
NoData == [fn |-> "none"]
NumTasks == 3
Tasks == 1..NumTasks
NoTask == [tool |-> "none", stage |-> "idle"]

Init ==
    /\ since_last_request = MinDelay   \* _last_request_time = 0.0 is long ago
    /\ metrics = [requests_total |-> 0, requests_success |-> 0, requests_failed |-> 0,
                  average_response_time |-> <<0, 1>>, retry_count |-> 0]
    /\ pc = [c \in Calls |-> "idle"]
    /\ sleep_left = [c \in Calls |-> 0]
    /\ max_retries = [c \in Calls |-> 0]
    /\ attempt = [c \in Calls |-> 0]
    /\ retry_count = [c \in Calls |-> 0]
    /\ last_error = [c \in Calls |-> None]
    /\ since_start = [c \in Calls |-> 0]
    /\ result = [c \in Calls |-> None]
    /\ hist = [c \in Calls |-> NoHist]
    /\ obs = NoObs
    /\ op = NoOp
    /\ server = NoServer
    /\ data = NoData
    /\ tasks = [i \in Tasks |-> NoTask]

\* No call has a result its caller has not taken.
Settled == \A c \in Calls : pc[c] \notin Terminal

\* Lines 106 and 154-165: the call leaves the pacing gate, initialises its
\* locals, counts itself and dispatches attempt 0.
LeaveGate(c, h) ==
    /\ since_last_request' = 0
    /\ retry_count' = [retry_count EXCEPT ![c] = 0]
    /\ last_error' = [last_error EXCEPT ![c] = None]
    /\ since_start' = [since_start EXCEPT ![c] = 0]
    /\ metrics' = [metrics EXCEPT !.requests_total = @ + 1]
    /\ attempt' = [attempt EXCEPT ![c] = 0]
    /\ pc' = [pc EXCEPT ![c] = "request"]
    /\ hist' = [hist EXCEPT ![c] =
                  [h EXCEPT !.attempts = 1, !.in_flight = 0,
                            !.after_end = FALSE, !.since_prev_end = 0,
                            !.after_leave = FALSE, !.since_prev_leave = 0]]
    /\ obs' = [obs EXCEPT
                 !.dispatched = TRUE, !.since_dispatch = 0,
                 !.gap_dispatch = IF obs.dispatched THEN Min(@, obs.since_dispatch) ELSE @,
                 !.gap_end = IF h.after_end THEN Min(@, h.since_prev_end) ELSE @,
                 !.gap_leave = IF h.after_leave THEN Min(@, h.since_prev_leave) ELSE @,
                 !.seq_end = @ \/ h.after_end,
                 !.seq_leave = @ \/ h.after_leave]

\* A caller invokes _make_request(method, url, max_retries = budget).
make_request(c, budget) ==
    /\ Settled
    /\ pc[c] = "idle"
    /\ IF c = 1 THEN TRUE ELSE pc[c - 1] # "idle"   \* calls are numbered as they are made
    /\ max_retries' = [max_retries EXCEPT ![c] = budget]
    /\ LET delay == PacingSleep(since_last_request)
           h == [hist[c] EXCEPT
                    !.after_end = obs.ended, !.since_prev_end = obs.since_end,
                    !.after_leave = obs.dispatched, !.since_prev_leave = obs.since_dispatch]
       IN  IF delay > 0
           THEN /\ pc' = [pc EXCEPT ![c] = "pacing"]
                /\ sleep_left' = [sleep_left EXCEPT ![c] = delay]
                /\ hist' = [hist EXCEPT ![c] = h]
                /\ UNCHANGED <<since_last_request, metrics, attempt, retry_count,
                               last_error, since_start, obs>>
           ELSE /\ LeaveGate(c, h)
                /\ UNCHANGED sleep_left
    /\ UNCHANGED result

\* _make_request called on its own.
Call(c, budget) ==
    /\ make_request(c, budget)
    /\ UNCHANGED above

\* The pacing sleep is over.
PacingWake(c) ==
    /\ Settled
    /\ pc[c] = "pacing"
    /\ sleep_left[c] = 0
    /\ LeaveGate(c, hist[c])
    /\ UNCHANGED <<sleep_left, max_retries, result, above>>

\* The call ends: it returns res or raises it.
Finish(c, kind, res, m, h) ==
    /\ pc' = [pc EXCEPT ![c] = kind]
    /\ result' = [result EXCEPT ![c] = res]
    /\ metrics' = m
    /\ hist' = [hist EXCEPT ![c] = [h EXCEPT !.in_flight = 0]]
    /\ obs' = [obs EXCEPT !.ended = TRUE, !.since_end = 0,
                          !.sample_sum = IF h.last_status = 200 THEN @ + h.sample ELSE @,
                          !.successes = IF h.last_status = 200 THEN @ + 1 ELSE @,
                          !.retries_taken = @ + retry_count[c]]
    /\ UNCHANGED <<sleep_left, attempt, retry_count, since_start>>

\* (the call begins again instead of giving up)
ExhaustedStartsOver(c, err, h) ==
    /\ pc' = [pc EXCEPT ![c] = "request"]
    /\ attempt' = [attempt EXCEPT ![c] = 0]
    /\ retry_count' = [retry_count EXCEPT ![c] = 0]
    /\ since_start' = [since_start EXCEPT ![c] = 0]
    /\ hist' = [hist EXCEPT ![c] = [NoHist EXCEPT !.attempts = 1]]
    /\ UNCHANGED <<last_error, metrics, sleep_left, result, obs>>

\* Lines 245-252: the loop is over without a return.
Exhausted(c, err, h) ==
    /\ last_error' = [last_error EXCEPT ![c] = err]
    /\ Finish(c, "raised", RaisedAfterLoop(err),
              [metrics EXCEPT !.requests_failed = @ + 1,
                              !.retry_count = @ + retry_count[c]],
              [h EXCEPT !.exhausted = TRUE])

\* `await asyncio.sleep(seconds)` before the next attempt
Backoff(c, seconds, h) ==
    /\ pc' = [pc EXCEPT ![c] = "backoff"]
    /\ sleep_left' = [sleep_left EXCEPT ![c] = Max(seconds, 0) * TicksPerSecond]
    /\ hist' = [hist EXCEPT ![c] = [h EXCEPT !.waits = @ + 1, !.in_flight = 0]]
    /\ UNCHANGED <<metrics, attempt, retry_count, last_error, result, since_start, obs>>

\* Lines 165-225: client.request returns the response r.
Respond(c, r) ==
    /\ Settled
    /\ pc[c] = "request"
    /\ LET h == [hist[c] EXCEPT !.last_outcome = "response", !.last_status = r.status,
                                !.retry_after = r.retry_after, !.code = r.body.code]
           error_type == IF r.body.kind = "object" /\ r.body.code # NoCode
                         THEN r.body.code ELSE "unknown"
           retry_strategy == determine_retry_strategy(r.status, error_type)
           response_time == since_start[c]
       IN  IF IsSuccess(r.status)
           THEN /\ Finish(c,
                          IF r.body.kind = "text" THEN "raised" ELSE "returned",
                          IF r.body.kind = "text" THEN OtherError("JSONDecodeError")
                                                  ELSE JsonPayload,
                          update_response_time_metric(
                              [metrics EXCEPT !.requests_success = @ + 1], response_time),
                          [h EXCEPT !.sample = response_time])
                /\ UNCHANGED last_error
           ELSE IF r.body.kind = "array"
           THEN \* error_data is a list or a string: error_data.get raises
                /\ Finish(c, "raised", OtherError(AttributeError), metrics, h)
                /\ UNCHANGED last_error
           ELSE IF retry_strategy = AttributeError
           THEN /\ Finish(c, "raised", OtherError(AttributeError), metrics, h)
                /\ UNCHANGED last_error
           ELSE IF retry_strategy = NO_RETRY
           THEN /\ Finish(c, "raised",
                          NotionAPIError("api_error", r.status, ErrorDetails(r.body)),
                          [metrics EXCEPT !.requests_failed = @ + 1], h)
                /\ UNCHANGED last_error
           ELSE IF retry_strategy = RATE_LIMIT_BACKOFF /\ MayRetry(attempt[c], max_retries[c])
           THEN IF r.retry_after = << >>
                THEN Backoff(c, Pow2(attempt[c]), h)
                ELSE IF IsIntLiteral(r.retry_after[1])
                THEN Backoff(c, IntValue(r.retry_after[1]), h)
                ELSE /\ Finish(c, "raised", OtherError("ValueError"), metrics, h)
                     /\ UNCHANGED last_error
           ELSE IF retry_strategy = EXPONENTIAL_BACKOFF /\ MayRetry(attempt[c], max_retries[c])
           THEN Backoff(c, ServerBackoff(attempt[c]), h)
           ELSE Exhausted(c, NotionAPIError("api_error_after_retries", r.status,
                                            ErrorDetails(r.body)), h)
    /\ UNCHANGED <<since_last_request, max_retries, above>>

\* Lines 227-243: client.request raises an httpx exception.
TransportFail(c, kind) ==
    /\ Settled
    /\ pc[c] = "request"
    /\ LET h == [hist[c] EXCEPT !.last_outcome = kind, !.last_status = NoStatus,
                                !.retry_after = << >>, !.code = NoCode]
       IN  IF kind = "protocol"
           THEN \* neither TimeoutException nor NetworkError: not caught
                /\ Finish(c, "raised", OtherError("TransportError"), metrics, h)
                /\ UNCHANGED last_error
           ELSE IF MayRetry(attempt[c], max_retries[c])
           THEN Backoff(c, TransportBackoff(attempt[c]), h)
           ELSE Exhausted(c, FinalTransportError(kind), h)
    /\ UNCHANGED <<since_last_request, max_retries, above>>

\* (the retry passes the pacing gate as a new call does)
BackoffWakeThroughGate(c) ==
    /\ Settled
    /\ pc[c] = "backoff"
    /\ sleep_left[c] = 0
    /\ since_last_request' = 0
    /\ retry_count' = [retry_count EXCEPT ![c] = @ + 1]
    /\ attempt' = [attempt EXCEPT ![c] = @ + 1]
    /\ pc' = [pc EXCEPT ![c] = "request"]
    /\ hist' = [hist EXCEPT ![c].attempts = @ + 1, ![c].in_flight = 0]
    /\ UNCHANGED <<metrics, sleep_left, max_retries, last_error,
                   since_start, result, obs, above>>

\* The backoff sleep is over: retry_count += 1; continue; the next attempt.
BackoffWake(c) ==
    /\ Settled
    /\ pc[c] = "backoff"
    /\ sleep_left[c] = 0
    /\ retry_count' = [retry_count EXCEPT ![c] = @ + 1]
    /\ attempt' = [attempt EXCEPT ![c] = @ + 1]
    /\ pc' = [pc EXCEPT ![c] = "request"]
    /\ hist' = [hist EXCEPT ![c].attempts = @ + 1, ![c].in_flight = 0]
    /\ UNCHANGED <<since_last_request, metrics, sleep_left, max_retries, last_error,
                   since_start, result, obs, above>>

\* The frame of a call that is over: its locals are gone.
Drop(c, kind) ==
    /\ pc' = [pc EXCEPT ![c] = kind]
    /\ sleep_left' = [sleep_left EXCEPT ![c] = 0]
    /\ max_retries' = [max_retries EXCEPT ![c] = 0]
    /\ attempt' = [attempt EXCEPT ![c] = 0]
    /\ retry_count' = [retry_count EXCEPT ![c] = 0]
    /\ last_error' = [last_error EXCEPT ![c] = None]
    /\ since_start' = [since_start EXCEPT ![c] = 0]
    /\ result' = [result EXCEPT ![c] = None]
    /\ hist' = [hist EXCEPT ![c] = NoHist]
    /\ UNCHANGED <<since_last_request, metrics, obs>>

\* The task running the call is cancelled while suspended at an await:
\* CancelledError propagates out of _make_request, no handler catches it.
Cancel(c) ==
    /\ Settled
    /\ pc[c] \in Suspended
    /\ Drop(c, "cancelled")
    /\ UNCHANGED above

\* The caller takes the result or the exception.
Return(c) ==
    /\ pc[c] \in Terminal
    /\ Drop(c, "done")
    /\ UNCHANGED above

\* ------------------------------------------------------------------- time
InFlight == {c \in Calls : pc[c] = "request"}
Sleepers == {c \in Calls : pc[c] \in Sleeping /\ sleep_left[c] > 0}

\* No HTTP attempt lasts longer than MaxLatency (the httpx timeout bounds it).
NoneOverdue == \A c \in InFlight : hist[c].in_flight < MaxLatency

Capped(t) == Min(t, MinDelay)

\* d ticks pass: every clock advances, every sleep shortens.
Advance(d) ==
    /\ since_last_request' = Capped(since_last_request + d)
    /\ since_start' = [c \in Calls |->
            IF pc[c] \in {"request", "backoff"} THEN since_start[c] + d ELSE since_start[c]]
    /\ sleep_left' = [c \in Calls |->
            IF pc[c] \in Sleeping THEN Max(sleep_left[c] - d, 0) ELSE sleep_left[c]]
    /\ hist' = [c \in Calls |->
            IF pc[c] = "request" THEN [hist[c] EXCEPT !.in_flight = @ + d]
            ELSE IF pc[c] = "pacing"
            THEN [hist[c] EXCEPT !.since_prev_end = Capped(@ + d),
                                 !.since_prev_leave = Capped(@ + d)]
            ELSE hist[c]]
    /\ obs' = [obs EXCEPT !.since_dispatch = IF obs.dispatched THEN Capped(@ + d) ELSE @,
                          !.since_end = IF obs.ended THEN Capped(@ + d) ELSE @]
    /\ UNCHANGED <<metrics, pc, max_retries, attempt, retry_count, last_error, result>>

\* One tick passes while an attempt is in flight or the pacing gap since the
\* latest request is still open.
Tick ==
    /\ Settled
    /\ NoneOverdue
    /\ InFlight # {} \/ since_last_request < MinDelay
    /\ Advance(1)
    /\ UNCHANGED above

\* Nothing is in flight: time passes until the next sleeping call is due.
SleepThrough ==
    /\ Settled
    /\ InFlight = {}
    /\ Sleepers # {}
    /\ Advance(CHOOSE d \in {sleep_left[c] : c \in Sleepers} :
                  \A c \in Sleepers : d <= sleep_left[c])
    /\ UNCHANGED above

\* One call of _make_request against every backend behaviour.
Next ==
    \/ \E budget \in 0..MaxBudget : Call(1, budget)
    \/ \E r \in Responses : Respond(1, r)
    \/ \E kind \in TransportFailures : TransportFail(1, kind)
    \/ BackoffWake(1)
    \/ Cancel(1)
    \/ Return(1)
    \/ Tick
    \/ SleepThrough

Spec == Init /\ [][Next]_vars

\* The same, with what the event loop and the claim's premises guarantee:
\* an HTTP attempt ends (httpx's timeout bounds it), a sleep that is due
\* ends, time passes while calls sleep, and a caller takes the result of
\* its call.  Nothing says a call is ever made or cancelled.
AttemptEnds ==
    \/ \E r \in Responses : Respond(1, r)
    \/ \E kind \in TransportFailures : TransportFail(1, kind)

SpecLive ==
    /\ Spec
    /\ WF_vars(AttemptEnds)
    /\ WF_vars(BackoffWake(1))
    /\ WF_vars(SleepThrough)
    /\ WF_vars(Return(1))

\* One call with a budget deep enough for the caps of the backoff to bite,
\* against a backend that answers at once with 200, 500 or 429 (without
\* Retry-After, or with one that is or is not an integer), or that cannot
\* be reached.
DeepBudget == 7
BackoffResponses ==
    {r \in Responses :
        /\ r.body = [kind |-> "object", code |-> NoCode]
        /\ r.status \in {200, 429, 500}
        /\ r.retry_after \in {<< >>, << <<"1">> >>, << <<"1", ".", "5">> >>}}

BackoffNext ==
    \/ Call(1, DeepBudget)
    \/ \E r \in BackoffResponses : Respond(1, r)
    \/ \E kind \in {"timeout", "network"} : TransportFail(1, kind)
    \/ BackoffWake(1)
    \/ Return(1)
    \/ SleepThrough

SpecBackoff == Init /\ [][BackoffNext]_vars

\* Several calls on one client, as the tool dispatcher issues them: each may
\* begin while others are suspended.  The backend answers 200, 404 or 429
\* with Retry-After: 0.
ClientResponses ==
    {r \in Responses :
        /\ r.body = [kind |-> "object", code |-> NoCode]
        /\ \/ r.status \in {200, 404} /\ r.retry_after = << >>
           \/ r.status = 429 /\ r.retry_after = << <<"0">> >>}

ClientNext ==
    \/ \E c \in Calls, budget \in 0..1 : Call(c, budget)
    \/ \E c \in Calls : PacingWake(c)
    \/ \E c \in Calls, r \in ClientResponses : Respond(c, r)
    \/ \E c \in Calls : BackoffWake(c)
    \/ \E c \in Calls : Cancel(c)
    \/ \E c \in Calls : Return(c)
    \/ Tick
    \/ SleepThrough

SpecClient == Init /\ [][ClientNext]_vars

\* ============================================================ data_types
\* Strings are sequences of one-character strings.
engine == <<since_last_request, metrics, pc, sleep_left, max_retries, attempt,
            retry_count, last_error, since_start, result, hist, obs>>

HexChars == <<"0", "1", "2", "3", "4", "5", "6", "7", "8", "9",
              "a", "b", "c", "d", "e", "f", "A", "B", "C", "D", "E", "F">>
IsHexDigit(ch) == \E i \in 1..Len(HexChars) : HexChars[i] = ch
IsSpace(ch) == ch \in {" ", "\t", "\n", "\r"}

\* s.replace(ch, '')
Remove(s, ch) == SelectSeq(s, LAMBDA x : x # ch)

\* s.strip()
LStrip(s) ==
    LET kept == {i \in 1..Len(s) : ~IsSpace(s[i])}
    IN  IF kept = {} THEN << >>
        ELSE SubSeq(s, CHOOSE i \in kept : \A j \in kept : i <= j, Len(s))
RStrip(s) ==
    LET kept == {i \in 1..Len(s) : ~IsSpace(s[i])}
    IN  IF kept = {} THEN << >>
        ELSE SubSeq(s, 1, CHOOSE i \in kept : \A j \in kept : i >= j)
Strip(s) == RStrip(LStrip(s))

\* int(s, 16) does not raise ValueError.  Python's int() skips surrounding
\* whitespace, takes one sign, takes a 0x / 0X prefix (and one underscore
\* after it), then wants hexadecimal digits with single underscores between
\* them.
DropSign(s) == IF Len(s) > 0 /\ s[1] \in {"+", "-"} THEN Tail(s) ELSE s
DropBasePrefix(s) ==
    IF Len(s) >= 2 /\ s[1] = "0" /\ s[2] \in {"x", "X"}
    THEN LET t == SubSeq(s, 3, Len(s))
         IN  IF Len(t) > 0 /\ t[1] = "_" THEN Tail(t) ELSE t
    ELSE s
IsDigitRun(s) ==
    /\ Len(s) > 0
    /\ IsHexDigit(s[1])
    /\ IsHexDigit(s[Len(s)])
    /\ \A i \in 1..Len(s) : IsHexDigit(s[i]) \/ s[i] = "_"
    /\ \A i \in 1..(Len(s) - 1) : ~(s[i] = "_" /\ s[i + 1] = "_")
AllHexDigits(s) == \A i \in 1..Len(s) : IsHexDigit(s[i])
int_base16(s) == IsDigitRun(DropBasePrefix(DropSign(Strip(s))))

PageIdLen == 32

validate_notion_page_id(page_id) ==
    IF Len(page_id) = 0 THEN FALSE
    ELSE LET clean_id == Remove(page_id, "-")
         IN  IF Len(clean_id) # PageIdLen THEN FALSE
             ELSE int_base16(clean_id)

\* Inputs of validate_notion_page_id: a run of hexadecimal digits between a
\* prefix and a suffix, and the hyphen-grouped form 8-4-4-4-12.
HexRun(n) == [i \in 1..n |-> HexChars[(i % Len(HexChars)) + 1]]
IdPrefixes == {<< >>, <<"+">>, <<"-">>, <<" ">>, <<"0", "x">>, <<"0", "X", "_">>,
               <<"_">>, <<"g">>, <<"A", "b">>}
IdSuffixes == {<< >>, <<" ">>, <<"\n">>, <<"_">>, <<"_", "f">>, <<"_", "_", "f">>,
               <<"z">>, <<"-", "c">>}
Hyphenated(s) == SubSeq(s, 1, 8) \o <<"-">> \o SubSeq(s, 9, 12) \o <<"-">> \o
                 SubSeq(s, 13, 16) \o <<"-">> \o SubSeq(s, 17, 20) \o <<"-">> \o
                 SubSeq(s, 21, Len(s))
PageIds ==
    {pre \o HexRun(n) \o post :
        pre \in IdPrefixes, n \in (PageIdLen - 4)..PageIdLen, post \in IdSuffixes}
    \cup {<< >>, Hyphenated(HexRun(PageIdLen)), Hyphenated(HexRun(PageIdLen - 1))}

Apply_validate_notion_page_id ==
    /\ data = NoData
    /\ \E page_id \in PageIds :
          data' = [fn |-> "validate_notion_page_id", input |-> page_id,
                   output |-> validate_notion_page_id(page_id)]
    /\ UNCHANGED <<engine, op, server, tasks>>

\* ------------------------------------------------------- sanitize_tags
UpperChars == <<"A", "B", "C", "D", "E", "F">>
LowerChars == <<"a", "b", "c", "d", "e", "f">>
LowerChar(ch) ==
    IF \E i \in 1..Len(UpperChars) : UpperChars[i] = ch
    THEN LowerChars[CHOOSE i \in 1..Len(UpperChars) : UpperChars[i] = ch]
    ELSE ch
\* s.lower()
str_lower(s) == [i \in 1..Len(s) |-> LowerChar(s[i])]
\* s[:n]
Take(s, n) == SubSeq(s, 1, Min(Len(s), Max(n, 0)))
\* x in s
Member(x, s) == \E i \in 1..Len(s) : s[i] = x

MaxTagLen == 50
MaxTags == 10

\* Lines 170-175: the loop over tags, sanitized being the list built so far.
RECURSIVE sanitize_loop(_, _)
sanitize_loop(tags, sanitized) ==
    IF tags = << >> THEN sanitized
    ELSE LET tag == Head(tags)
             normalized == Take(str_lower(Strip(tag)), MaxTagLen)
         IN  sanitize_loop(Tail(tags),
                 IF Strip(tag) # << >> /\ normalized # << >> /\ ~Member(normalized, sanitized)
                 THEN Append(sanitized, normalized)
                 ELSE sanitized)

sanitize_tags(tags) == Take(sanitize_loop(tags, << >>), MaxTags)

\* Inputs of sanitize_tags: one tag of at most MaxSuffix characters over
\* TagChars, or of about MaxTagLen characters; lists of at most MaxTagList
\* tags out of a few of those; and lists of more than MaxTags distinct tags.
MaxSuffix == 2
MaxTagList == 2
TagChars == {"a", "B", " "}
Pad(n) == [i \in 1..n |-> "p"]
Suffixes(n) == UNION {[1..k -> TagChars] : k \in 0..n}
Tags ==
    Suffixes(MaxSuffix)
    \cup {Pad(MaxTagLen - 1) \o t : t \in Suffixes(2)}
ManyTags(n) == [i \in 1..n |-> Pad(i)]
ListTags == {<<" ">>, <<"a">>, <<"B">>, <<" ", "a">>, <<"A", " ">>, <<"a", "b">>,
             Pad(MaxTagLen), Pad(MaxTagLen - 1) \o <<" ", "a">>,
             Pad(MaxTagLen - 1) \o <<"B", "a">>}
TagLists ==
    {<<t>> : t \in Tags}
    \cup UNION {[1..k -> ListTags] : k \in 0..MaxTagList}
    \cup {ManyTags(n) : n \in (MaxTags - 1)..(MaxTags + 2)}
    \cup {ManyTags(MaxTags) \o <<Pad(1), <<"a">>, <<"B">> >>}

Apply_sanitize_tags ==
    /\ data = NoData
    /\ \E tags \in TagLists :
          data' = [fn |-> "sanitize_tags", input |-> tags, output |-> sanitize_tags(tags)]
    /\ UNCHANGED <<engine, op, server, tasks>>

\* ------------------------------------------ extract_title_from_content
UntitledDocument == <<"U", "n", "t", "i", "t", "l", "e", "d", " ",
                      "D", "o", "c", "u", "m", "e", "n", "t">>
Ellipsis == <<".", ".", ".">>
MaxTitleLen == 100

\* content.split('\n')[0]
FirstLine(content) ==
    LET breaks == {i \in 1..Len(content) : content[i] = "\n"}
    IN  IF breaks = {} THEN content
        ELSE SubSeq(content, 1, (CHOOSE i \in breaks : \A j \in breaks : i <= j) - 1)

extract_title_from_content(content, max_length) ==
    IF content = << >> THEN UntitledDocument
    ELSE LET first_line == Strip(FirstLine(content))
         IN  IF first_line # << >>
             THEN IF Len(first_line) > max_length
                  THEN Take(first_line, max_length - 3) \o Ellipsis
                  ELSE first_line
             ELSE UntitledDocument

\* Lines 296-297 of notion_client.py: the title add_document goes on with.
add_document_title(title, content) ==
    IF title = << >> \/ Strip(title) = << >>
    THEN extract_title_from_content(content, MaxTitleLen)
    ELSE title

\* Inputs of add_document: short contents over ContentChars, and contents
\* whose first line is about MaxTitleLen long.
MaxContent == 4
ContentChars == {"a", " ", "\n"}
Contents ==
    UNION {[1..k -> ContentChars] : k \in 0..MaxContent}
    \cup {pre \o Pad(n) \o post :
             pre \in {<< >>, <<" ">>, <<"\n">>},
             n \in (MaxTitleLen - 3)..(MaxTitleLen + 2),
             post \in {<< >>, <<" ">>, <<"\n", "a">>}}
Titles == {<< >>, <<" ">>, <<" ", "\n">>, <<"T">>}

Apply_add_document_title ==
    /\ data = NoData
    /\ \E title \in Titles, content \in Contents :
          data' = [fn |-> "add_document_title",
                   input |-> [title |-> title, content |-> content],
                   output |-> add_document_title(title, content)]
    /\ UNCHANGED <<engine, op, server, tasks>>

\* ---------------------------------------------------- search_documents
\* Queries, tags and categories are opaque here; "" is the empty string.
NoCategory == "None"
TitleCondition(query) == [property |-> "Title", title_contains |-> query]
TagCondition(tag) == [property |-> "Tags", multi_select_contains |-> tag]
CategoryCondition(name) == [property |-> "Category", select_equals |-> name]

\* `if x:` for a string or None
Truthy(x) == x # NoCategory /\ x # ""

\* Lines 399-423: filter_conditions.
filter_conditions(query, tags, category) ==
    (IF query # "" THEN <<TitleCondition(query)>> ELSE << >>)
    \o [i \in 1..Len(tags) |-> TagCondition(tags[i])]
    \o (IF Truthy(category) THEN <<CategoryCondition(category)>> ELSE << >>)

\* Lines 436-440: the "filter" key of the payload.
NoFilter == [key |-> "absent"]
AndAlways(conditions) ==
    IF conditions = << >> THEN NoFilter ELSE [key |-> "filter", and |-> conditions]
payload_filter(conditions) ==
    IF conditions = << >> THEN NoFilter
    ELSE IF Len(conditions) = 1 THEN [key |-> "filter", condition |-> conditions[1]]
    ELSE [key |-> "filter", and |-> conditions]

MaxFilterTags == 3
Queries == {"", "q"}
FilterTags == UNION {[1..k -> {"", "x", "y"}] : k \in 0..MaxFilterTags}
Categories == {NoCategory, "", "Code", "Draft"}

Apply_search_filter ==
    /\ data = NoData
    /\ \E query \in Queries, tags \in FilterTags, category \in Categories :
          LET conditions == filter_conditions(query, tags, category)
          IN  data' = [fn |-> "search_filter",
                       input |-> [query |-> query, tags |-> tags, category |-> category],
                       output |-> [conditions |-> conditions,
                                   filter |-> payload_filter(conditions)]]
    /\ UNCHANGED <<engine, op, server, tasks>>

\* A row of "results" as the backend sent it:
\*   json      "object", or "other" for a row that is not a JSON object
\*   id        "present", "absent" (no "id" key) or "null"
\*   category  "named", "absent" (no Category property) or "unnamed" (a
\*             select object without "name")
\*   n         its position in the backend's answer
RowShapes == [json : {"object", "other"}, id : {"present", "absent", "null"},
              category : {"named", "absent", "unnamed"}]
SomeRowShapes ==
    {r \in RowShapes : r.json = "object" \/ (r.id = "present" /\ r.category = "named")}
Row(shape, n) == [json |-> shape.json, id |-> shape.id, category |-> shape.category, n |-> n]

\* Lines 504-538: _parse_page_summary returns a DocumentSummary or raises.
parse_page_summary(page_data) ==
    IF page_data.json # "object"
    THEN [raised |-> TRUE, error |-> "AttributeError"]     \* page_data.get
    ELSE IF page_data.category = "unnamed"
    THEN [raised |-> TRUE, error |-> "KeyError"]           \* ["select"]["name"]
    ELSE IF page_data.id = "null"
    THEN [raised |-> TRUE, error |-> "ValidationError"]    \* DocumentSummary(id=None)
    ELSE [raised |-> FALSE,
          summary |-> [row |-> page_data.n,
                       id |-> IF page_data.id = "absent" THEN "" ELSE "id",
                       category |-> IF page_data.category = "absent"
                                    THEN "General" ELSE "name"]]

\* Lines 449-470: the loop over result["results"], documents being the
\* summaries collected so far.  The handler of a row that failed to parse
\* evaluates page.get('id', 'unknown') for its log line.
RECURSIVE parse_rows(_, _)
parse_rows(rows, documents) ==
    IF rows = << >>
    THEN [raised |-> FALSE, results |-> documents, total_count |-> Len(documents)]
    ELSE LET page == Head(rows)
             parsed == parse_page_summary(page)
         IN  IF ~parsed.raised
             THEN parse_rows(Tail(rows), Append(documents, parsed.summary))
             ELSE IF page.json # "object"
             THEN [raised |-> TRUE, error |-> "AttributeError"]
             ELSE parse_rows(Tail(rows), documents)

MaxRows == 3
RowLists ==
    UNION {{[i \in 1..k |-> Row(shapes[i], i)] : shapes \in [1..k -> SomeRowShapes]} :
              k \in 0..MaxRows}

Apply_parse_rows ==
    /\ data = NoData
    /\ \E rows \in RowLists :
          data' = [fn |-> "parse_rows", input |-> rows, output |-> parse_rows(rows, << >>)]
    /\ UNCHANGED <<engine, op, server, tasks>>

\* -------------------------------------------------- _parse_full_document
\* A block as the backend sent it: its "type" (NoType when the key is
\* absent), the plain_text of the runs of its rich_text, and the language
\* of a code block.
NoType == "None"
TextTypes == {"paragraph", "heading_1", "heading_2", "heading_3"}
SupportedTypes == TextTypes \cup {"bulleted_list_item", "numbered_list_item", "code"}
Block(type, runs, language) == [type |-> type, runs |-> runs, language |-> language]

\* "".join([...])
RECURSIVE Concat(_)
Concat(runs) == IF runs = << >> THEN << >> ELSE Head(runs) \o Concat(Tail(runs))

Bullet == <<"*", " ">>       \* the bullet character and a space
Numbered == <<"1", ".", " ">>
Fence == <<"'", "'", "'">>   \* the three backquotes of a fence

\* Lines 600-615: text_content, before the strip of line 617.
block_text_content(block) ==
    IF block.type \in TextTypes THEN Concat(block.runs)
    ELSE IF block.type = "bulleted_list_item" THEN Bullet \o Concat(block.runs)
    ELSE IF block.type = "numbered_list_item" THEN Numbered \o Concat(block.runs)
    ELSE IF block.type = "code"
    THEN Fence \o block.language \o <<"\n">> \o Concat(block.runs) \o <<"\n">> \o Fence
    ELSE << >>

\* Lines 592-617: the stripped text, or None.
extract_block_text(block) ==
    IF block.type = NoType THEN [none |-> TRUE]
    ELSE LET text_content == block_text_content(block)
         IN  IF Strip(text_content) # << >>
             THEN [none |-> FALSE, text |-> Strip(text_content)]
             ELSE [none |-> TRUE]

\* Lines 570-575: content_parts.
RECURSIVE content_parts(_)
content_parts(blocks) ==
    IF blocks = << >> THEN << >>
    ELSE LET block_text == extract_block_text(Head(blocks))
         IN  (IF block_text.none THEN << >> ELSE <<block_text.text>>)
                 \o content_parts(Tail(blocks))

\* sep.join(parts)
RECURSIVE Join(_, _)
Join(parts, sep) ==
    IF parts = << >> THEN << >>
    ELSE IF Len(parts) = 1 THEN parts[1]
    ELSE parts[1] \o sep \o Join(Tail(parts), sep)

BlankLine == <<"\n", "\n">>
NoContentAvailable == <<"N", "o", " ", "c", "o", "n", "t", "e", "n", "t", " ",
                        "a", "v", "a", "i", "l", "a", "b", "l", "e">>

\* Line 577
document_content(blocks) ==
    LET parts == content_parts(blocks)
    IN  IF parts # << >> THEN Join(parts, BlankLine) ELSE NoContentAvailable

\* The blocks of a page: texts that are empty, blank, plain, indented, or
\* the very text of the placeholder, in blocks of supported types, of an
\* unsupported one ("divider") and of no type.
MaxBlocks == 2
BlockTexts == {<< >>, <<" ">>, <<"a">>, <<" ", "a">>, NoContentAvailable}
SomeBlocks ==
    {Block(type, <<text>>, << >>) :
        type \in {"paragraph", "bulleted_list_item", "divider"}, text \in BlockTexts}
    \cup {Block("numbered_list_item", << <<"a">>, <<"b">> >>, << >>),
          Block("heading_2", << <<"a">>, <<" ">> >>, << >>),
          Block("code", << <<"a">> >>, <<"p", "y">>),
          Block("code", << >>, << >>),
          Block(NoType, << <<"a">> >>, << >>)}
BlockLists == UNION {[1..k -> SomeBlocks] : k \in 0..MaxBlocks}

Apply_document_content ==
    /\ data = NoData
    /\ \E blocks \in BlockLists :
          data' = [fn |-> "document_content", input |-> blocks,
                   output |-> document_content(blocks)]
    /\ UNCHANGED <<engine, op, server, tasks>>

\* --------------------------------------------- the category of add_document
\* class DocumentCategory(str, Enum)
DocumentCategories == {"General", "Code", "Tutorial", "Reference", "Methodology"}

\* An argument: left out by the caller, None, a member of the enumeration,
\* or a plain string.
Omitted == [kind |-> "omitted"]
NoneArg == [kind |-> "none"]
Member_of(value) == [kind |-> "enum", value |-> value]
Str(value) == [kind |-> "str", value |-> value]

\* Lines 301-304 of notion_client.py, after the default of line 273.
category_name(category) ==
    LET given == IF category = Omitted THEN Member_of("General") ELSE category
    IN  IF given.kind = "enum" THEN given.value
        ELSE IF given.kind = "none" THEN "None"      \* str(None)
        ELSE given.value

\* Lines 228 and 248 of server.py: the tool's parameter defaults to None and
\* is handed to the client as it is.
tool_category(category) == IF category = Omitted THEN NoneArg ELSE category

\* What the host can pass to the tool (the dispatcher validates the argument
\* against Optional[DocumentCategory]) and a caller to the client method.
ToolCategories == {Omitted, NoneArg} \cup {Member_of(v) : v \in DocumentCategories}
ClientCategories == ToolCategories \cup {Str("Code"), Str("Draft"), Str("")}

Apply_add_document_category ==
    /\ data = NoData
    /\ \/ \E category \in ToolCategories :
             data' = [fn |-> "add_document_category", via |-> "tool", input |-> category,
                      output |-> category_name(tool_category(category))]
       \/ \E category \in ClientCategories :
             data' = [fn |-> "add_document_category", via |-> "client", input |-> category,
                      output |-> category_name(category)]
    /\ UNCHANGED <<engine, op, server, tasks>>

\* ------------------------------------------ the page_size of search_documents
DefaultLimit == 10
PageSizeCap == 100
IntArg(value) == [kind |-> "int", value |-> value]

\* Line 427 of notion_client.py: min(limit, 100)
page_size(limit) == Min(limit, PageSizeCap)

\* Line 379 of notion_client.py: limit: int = 10
client_limit(limit) == IF limit = Omitted THEN DefaultLimit ELSE limit.value

\* Lines 273 and 291 of server.py: limit: Optional[int] = 10, `limit or 10`
tool_limit(limit) ==
    IF limit \in {Omitted, NoneArg} THEN DefaultLimit
    ELSE IF limit.value = 0 THEN DefaultLimit
    ELSE limit.value

\* The limits a caller passes: any integer (neither signature bounds it).
MaxLimit == 102
Limits == {Omitted} \cup {IntArg(n) : n \in -2..MaxLimit}

Apply_search_page_size ==
    /\ data = NoData
    /\ \/ \E limit \in Limits \cup {NoneArg} :
             data' = [fn |-> "search_page_size", via |-> "tool", input |-> limit,
                      output |-> page_size(tool_limit(limit))]
       \/ \E limit \in Limits :
             data' = [fn |-> "search_page_size", via |-> "client", input |-> limit,
                      output |-> page_size(client_limit(limit))]
    /\ UNCHANGED <<engine, op, server, tasks>>

\* --------------------------------------------- _determine_retry_strategy
\* The status codes of a response that is not a 200, and the hints line 191
\* passes: the "code" of the error body, whatever JSON value it is, or
\* "unknown".
StrategyStatuses == {201, 302, 400, 401, 403, 404, 418, 429, 499, 500, 503, 599}
Hints == (Codes \ {NoCode}) \cup {"unknown", "gateway_timeout", "network_error",
                                  "NETWORK_ERROR"}

Apply_determine_retry_strategy ==
    /\ data = NoData
    /\ \E status_code \in StrategyStatuses, error_type \in Hints :
          data' = [fn |-> "determine_retry_strategy",
                   input |-> [status_code |-> status_code, error_type |-> error_type],
                   output |-> determine_retry_strategy(status_code, error_type)]
    /\ UNCHANGED <<engine, op, server, tasks>>

\* The helpers of the operations layer, each applied to every input.
DataNext ==
    \/ Apply_validate_notion_page_id
    \/ Apply_sanitize_tags
    \/ Apply_add_document_title
    \/ Apply_search_filter
    \/ Apply_parse_rows
    \/ Apply_document_content
    \/ Apply_add_document_category
    \/ Apply_search_page_size
    \/ Apply_determine_retry_strategy

SpecData == Init /\ [][DataNext]_vars

\* ======================================================= the three tools
\* One tool invocation at a time: the tool function of server.py, the
\* operation of NotionClient it calls, and the calls of _make_request that
\* operation makes (as call 1 of the engine).
MaxOps == 2
DefaultMaxRetries == 3

\* The page ids get_document is called with: a well-formed one, one a digit
\* short, one with a 0x prefix, the empty string.
OpsPageIds == {Hyphenated(HexRun(PageIdLen)), HexRun(PageIdLen - 1),
               <<"0", "x">> \o HexRun(PageIdLen - 2), << >>}

\* The backend of the tools answers 200, 404 or 500 with a JSON object, at
\* once: the only time that passes is the time the calls sleep.
OpsResponses ==
    {r \in Responses :
        /\ r.retry_after = << >>
        /\ r.status \in {200, 404, 500}
        /\ r.body = [kind |-> "object", code |-> NoCode]}

\* Line 488
InvalidPageId == NotionAPIError("invalid_page_id", NoStatus, "empty")
\* Line 205
RuntimeError == OtherError("RuntimeError")
\* what parsing a payload raises when the payload lacks what it reads
ParseError == OtherError("KeyError")

\* Lines 487-488: get_document raises before the try block.
get_document_rejects_nothing(page_id) == FALSE
get_document_rejects(page_id) == ~validate_notion_page_id(page_id)

\* Lines 490-502: what get_document does when the page read is over.
after_page_read_goes_on(kind) == "blocks"
after_page_read(kind) == IF kind = "returned" THEN "blocks" ELSE "raise"

\* Lines 236-237 (280-281, 317-318): the invocation is counted.
count_request(sv, tool) ==
    [sv EXCEPT !.requests_total = @ + 1, !.tools_called[tool] = @ + 1]

\* Lines 253 and 263 (295 and 305, 327 and 337): the outcome is counted.
count_outcome_success_only(sv, client) ==
    IF client = "returned" THEN [sv EXCEPT !.requests_success = @ + 1] ELSE sv
count_outcome(sv, client) ==
    IF client = "returned"
    THEN [sv EXCEPT !.requests_success = @ + 1]
    ELSE [sv EXCEPT !.requests_failed = @ + 1]

\* The tool function is over.  The operation returned (client = "returned")
\* or raised err (client = "raised"): lines 252-265, 294-307, 326-339.
\* o is the invocation, sv the server globals before the terminal increment.
ToolEnds(o, sv, client, err) ==
    /\ server' = count_outcome(sv, client)
    /\ op' = [stage |-> "idle", count |-> o.count,
              last |-> [kind |-> o.kind, valid |-> o.valid, reads |-> o.reads,
                        page |-> o.page, client |-> client, error |-> err,
                        tool |-> IF client = "returned" THEN "text_ok" ELSE "text_error",
                        before |-> o.before,
                        after |-> [metrics |-> metrics',
                                   since_last_request |-> since_last_request']]]

\* Lines 185-211 and 232-233: `if not notion_client: await initialize_server()`.
\* The global is assigned before the health check; an unhealthy backend makes
\* initialize_server raise RuntimeError, outside the tool's try block; after
\* a healthy one the tool goes on (Tool).
ToolInitializes(tool, health) ==
    /\ Settled
    /\ op.stage = "idle"
    /\ op.count < MaxOps
    /\ ~server.notion_client
    /\ server' = [server EXCEPT !.notion_client = TRUE]
    /\ op' = [stage |-> "idle",
              count |-> IF health = "healthy" THEN op.count ELSE op.count + 1,
              last |-> IF health = "healthy" THEN op.last
                       ELSE [kind |-> tool, valid |-> TRUE, reads |-> 0, page |-> NoPage,
                             client |-> "not_called", error |-> RuntimeError,
                             tool |-> "exception",
                             before |-> [metrics |-> metrics,
                                         since_last_request |-> since_last_request],
                             after |-> [metrics |-> metrics,
                                        since_last_request |-> since_last_request]]]
    /\ UNCHANGED <<engine, data, tasks>>

\* Lines 235-243 (279-287, 316-324) and the operation of the client up to
\* its first await.
Tool(tool, page_id) ==
    /\ Settled
    /\ op.stage = "idle"
    /\ op.count < MaxOps
    /\ server.notion_client
    /\ LET sv == count_request(server, tool)
           o == [stage |-> IF tool = "get_document" THEN "page" ELSE "request",
                 count |-> op.count + 1, kind |-> tool,
                 valid |-> IF tool = "get_document"
                           THEN validate_notion_page_id(page_id) ELSE TRUE,
                 reads |-> 1, page |-> NoPage,
                 before |-> [metrics |-> metrics, since_last_request |-> since_last_request],
                 last |-> op.last]
       IN  IF tool = "get_document" /\ get_document_rejects(page_id)
           THEN /\ UNCHANGED engine
                /\ ToolEnds([o EXCEPT !.reads = 0], sv, "raised", InvalidPageId)
           ELSE /\ make_request(1, DefaultMaxRetries)
                /\ op' = o
                /\ server' = sv
    /\ UNCHANGED <<data, tasks>>

\* Line 495: the second read of get_document.
ReadBlocks ==
    /\ Settled
    /\ op.stage = "page_done"
    /\ make_request(1, DefaultMaxRetries)
    /\ op' = [op EXCEPT !.stage = "blocks", !.reads = @ + 1]
    /\ UNCHANGED <<server, data, tasks>>

\* _make_request is over and the operation runs on: it raises what the
\* call raised, or goes on with the payload, which has the shape the
\* operation reads (shaped) or not.
Resume(shaped) ==
    /\ pc[1] \in Terminal
    /\ op.stage \in {"request", "page", "blocks"}
    /\ Drop(1, "idle")
    /\ LET kind == pc[1]
           o == IF op.stage = "page" THEN [op EXCEPT !.page = [kind |-> kind, res |-> result[1]]]
                ELSE op
       IN  IF op.stage = "page" /\ after_page_read(kind) = "blocks"
           THEN /\ op' = [o EXCEPT !.stage = "page_done"]
                /\ UNCHANGED server
           ELSE IF kind = "raised"
           THEN ToolEnds(o, server, "raised", result[1])
           ELSE IF shaped
           THEN ToolEnds(o, server, "returned", None)
           ELSE ToolEnds(o, server, "raised", ParseError)
    /\ UNCHANGED <<data, tasks>>

\* The tools invoked one after another against the backend.
OpsNext ==
    \/ \E tool \in Tools, health \in {"healthy", "unhealthy"} : ToolInitializes(tool, health)
    \/ \E tool \in Tools, page_id \in OpsPageIds : Tool(tool, page_id)
    \/ ReadBlocks
    \/ \E shaped \in BOOLEAN : Resume(shaped)
    \/ PacingWake(1)
    \/ \E r \in OpsResponses : Respond(1, r)
    \/ BackoffWake(1)
    \/ SleepThrough

SpecOps == Init /\ [][OpsNext]_vars

\* ------------------------------------------------ concurrent invocations
\* The dispatcher runs each tool invocation as a task of one event loop; a
\* task runs on until it awaits.  The operation of the client is seen here
\* by its outcome alone: it returns, or it raises an Exception.

\* Lines 232-237: the tool function begins.  With no client yet it calls
\* initialize_server, which assigns the global (line 195) and awaits the
\* health check; else it counts itself and awaits the operation.
Invoke(i, tool) ==
    /\ tasks[i].stage = "idle"
    /\ IF i = 1 THEN TRUE ELSE tasks[i - 1].stage # "idle"   \* numbered as they begin
    /\ IF ~server.notion_client
       THEN /\ server' = [server EXCEPT !.notion_client = TRUE]
            /\ tasks' = [tasks EXCEPT ![i] = [tool |-> tool, stage |-> "initializing"]]
       ELSE /\ server' = count_request(server, tool)
            /\ tasks' = [tasks EXCEPT ![i] = [tool |-> tool, stage |-> "running"]]
    /\ UNCHANGED <<engine, op, data>>

\* Lines 202-211, then 235-237: the health check is over.  An unhealthy
\* backend makes initialize_server raise, and the exception leaves the tool.
Initialized(i, health) ==
    /\ tasks[i].stage = "initializing"
    /\ IF health = "healthy"
       THEN /\ server' = count_request(server, tasks[i].tool)
            /\ tasks' = [tasks EXCEPT ![i].stage = "running"]
       ELSE /\ tasks' = [tasks EXCEPT ![i].stage = "raised"]
            /\ UNCHANGED server
    /\ UNCHANGED <<engine, op, data>>

\* Lines 252-265 (294-307, 326-339): the operation is over and the tool
\* returns its text.
OperationEnds(i, client) ==
    /\ tasks[i].stage = "running"
    /\ server' = count_outcome(server, client)
    /\ tasks' = [tasks EXCEPT ![i].stage = "done"]
    /\ UNCHANGED <<engine, op, data>>

ServerNext ==
    \/ \E i \in Tasks, tool \in Tools : Invoke(i, tool)
    \/ \E i \in Tasks, health \in {"healthy", "unhealthy"} : Initialized(i, health)
    \/ \E i \in Tasks, client \in {"returned", "raised"} : OperationEnds(i, client)

SpecServer == Init /\ [][ServerNext]_vars

\* ================================================================ claims

\* C1: one call of _make_request with budget max_retries makes at most
\* max_retries + 1 HTTP attempts and at most max_retries backoff waits, and
\* no backoff wait follows the final attempt: a call that is waiting still
\* has an attempt within its budget to make, and a call that has ended has
\* made more attempts than waits.
C1_RetryBudget ==
    \A c \in Calls :
        /\ hist[c].attempts <= max_retries[c] + 1
        /\ hist[c].waits <= max_retries[c]
        /\ pc[c] = "backoff" => hist[c].attempts <= max_retries[c]
        /\ pc[c] \in Terminal => hist[c].waits = hist[c].attempts - 1

\* a call with budget 2 has used it up: three attempts, two waits
C1_Witness ==
    \E c \in Calls :
        /\ pc[c] = "raised" /\ hist[c].exhausted
        /\ max_retries[c] = 2 /\ hist[c].attempts = 3 /\ hist[c].waits = 2

\* C2: when an attempt receives 401, 403 or 404, whatever the body carries
\* and whatever attempts preceded it, the call makes no further attempt and
\* no backoff wait, and raises a NotionAPIError with that status: the call
\* whose latest response is one of these has ended with that error.
C2_ClientErrorRaised ==
    \A c \in Calls :
        (hist[c].last_outcome = "response" /\ hist[c].last_status \in {401, 403, 404})
            => /\ pc[c] = "raised"
               /\ result[c].type = "NotionAPIError"
               /\ result[c].status_code = hist[c].last_status

\* C3: after every completed call the cumulative counter
\* metrics["retry_count"] has grown by the retries taken in that call: it is
\* the sum of the retries of the calls that have returned or raised.
C3_RetryCounter == metrics.retry_count = obs.retries_taken

\* C4: requests_total = requests_success + requests_failed + the number of
\* calls begun and neither returned nor raised, the cancelled ones counted.
C4_RequestAccounting ==
    metrics.requests_total =
        metrics.requests_success + metrics.requests_failed
            + Cardinality({c \in Calls : pc[c] \in Suspended \cup {"cancelled"}})

\* C5: a call either returns the JSON payload or raises NotionAPIError; no
\* other exception escapes the engine.
C5_OnlyNotionAPIError ==
    \A c \in Calls :
        /\ pc[c] = "returned" => result[c].type = "json"
        /\ pc[c] = "raised" => result[c].type = "NotionAPIError"

\* C6: no two calls leave the pacing gate and dispatch their first HTTP
\* attempt less than the minimum gap apart, however the calls interleave.
C6_PacingSerialized == obs.gap_dispatch >= MinDelay

\* C7 as stated: the first attempt of a request is dispatched at least the
\* minimum gap after the END of every request that ended before it began.
C7_GapFromEnd == obs.gap_end >= MinDelay

\* C7 as amended: the first attempt of a request is dispatched at least the
\* minimum gap after the first dispatch (the passage of the pacing gate) of
\* every request that had left the gate when it began; so two consecutive
\* requests START at least the gap apart, however soon the later one
\* follows the end of the earlier.
C7_GapFromStart == obs.gap_leave >= MinDelay

\* a request begun right at the end of an earlier one that took the whole
\* gap has been dispatched with no pause since that end
C7_Witness == obs.seq_end /\ obs.seq_leave /\ obs.gap_end = 0

\* C8: average_response_time is the arithmetic mean of the latency samples
\* of the calls that ended in success, and requests_success is their number.
C8_RunningMean ==
    /\ metrics.requests_success = obs.successes
    /\ metrics.average_response_time[1] * obs.successes
          = obs.sample_sum * metrics.average_response_time[2]

\* three calls have succeeded, with samples that are not all equal
C8_Witness ==
    /\ obs.successes = 3
    /\ metrics.average_response_time[2] = 3

\* C9: a call returns a payload only when an attempt receives exactly 200;
\* no other status, 201 included, ends the call in success or increments
\* requests_success.
C9_Only200 ==
    /\ \A c \in Calls :
          /\ pc[c] = "returned" => hist[c].last_status = 200
          /\ (pc[c] \in Terminal /\ hist[c].last_status # 200) => pc[c] = "raised"
    /\ metrics.requests_success = obs.successes

\* a 201 has ended the call in failure
C9_Witness ==
    \E c \in Calls :
        /\ pc[c] = "raised" /\ hist[c].last_status = 201
        /\ result[c].type = "NotionAPIError" /\ metrics.requests_success = 0

\* C10: a call that runs out of budget raises the error of its final
\* attempt: with the status of the final response, or with no status after
\* a timeout or a network failure; the generic exhausted-retries error is
\* raised only when no error was recorded.
C10_LastErrorRaised ==
    \A c \in Calls :
        hist[c].exhausted =>
            /\ pc[c] = "raised"
            /\ result[c].type = "NotionAPIError"
            /\ result[c].message = "max_retries_exceeded" <=> last_error[c] = None
            /\ last_error[c] # None => result[c] = last_error[c]
            /\ hist[c].last_outcome = "response" =>
                  /\ result[c].message = "api_error_after_retries"
                  /\ result[c].status_code = hist[c].last_status
            /\ hist[c].last_outcome = "timeout" =>
                  /\ result[c].message = "timeout_after_retries"
                  /\ result[c].status_code = NoStatus
            /\ hist[c].last_outcome = "network" =>
                  /\ result[c].message = "network_after_retries"
                  /\ result[c].status_code = NoStatus

\* two retries, then the final attempt times out
C10_Witness ==
    \E c \in Calls :
        /\ hist[c].exhausted /\ hist[c].attempts = 3
        /\ hist[c].last_outcome = "timeout"

\* C11: get_document with a page_id that fails validation raises at once:
\* it raises the invalid-id NotionAPIError, has made no call of the engine
\* (no HTTP request, no passage of the pacing gate), and the metrics of the
\* engine and the time of the last request are what they were.
C11_InvalidIdFailsFast ==
    (op.last.kind = "get_document" /\ ~op.last.valid) =>
        /\ op.last.client = "raised"
        /\ op.last.error = NotionAPIError("invalid_page_id", NoStatus, "empty")
        /\ op.last.reads = 0
        /\ op.last.after = op.last.before

\* an invalid id after an operation that has moved the metrics
C11_Witness ==
    /\ op.last.kind = "get_document" /\ ~op.last.valid
    /\ metrics.requests_total > 0
    /\ since_last_request < MinDelay

\* C12: get_document reads the page, then the blocks: the blocks read is
\* begun only once the page read, retries included, has returned; when the
\* page read raises, no blocks read is made and get_document raises that
\* error.
C12_PageThenBlocks ==
    /\ op.stage \in {"page_done", "blocks"} =>
          /\ op.page.kind = "returned"
          /\ op.stage = "blocks" => op.reads = 2
    /\ op.stage = "page" => op.reads = 1 /\ op.page.kind = "none"
    /\ (op.last.kind = "get_document" /\ op.last.valid) =>
          /\ op.last.page.kind = "returned" <=> op.last.reads = 2
          /\ op.last.page.kind = "raised" =>
                /\ op.last.reads = 1
                /\ op.last.client = "raised"
                /\ op.last.error = op.last.page.res

\* the page read was retried and raised; and both reads were made
C12_Witness ==
    /\ op.last.kind = "get_document" /\ op.last.valid
    /\ op.last.page.kind = "raised"
    /\ op.last.page.res.message = "api_error_after_retries"
    /\ op.last.after.metrics.retry_count = DefaultMaxRetries

\* C13: whatever the initialization and the operation of the client do, a
\* tool returns a text block: no exception leaves add_document,
\* search_documents or get_document.
C13_NoExceptionLeavesTool ==
    op.last.kind # "none" => op.last.tool \in {"text_ok", "text_error"}

\* C14: every call of _make_request ends: once begun, it returns, raises
\* or is cancelled, whatever the backend answers, as long as each HTTP
\* attempt ends and each sleep is finite.
C14_CallTerminates ==
    (pc[1] \in Suspended) ~> (pc[1] \in Terminal \cup {"cancelled"})

\* a call that used its whole budget and ended
C14_Witness ==
    /\ pc[1] \in Terminal
    /\ hist[1].attempts = MaxBudget + 1
    /\ hist[1].waits = MaxBudget

\* C15: a tool invocation that reaches the engine adds exactly one to
\* requests_total.
C15_OneRequestPerOperation ==
    (op.last.kind # "none" /\ op.last.reads > 0) =>
        op.last.after.metrics.requests_total = op.last.before.metrics.requests_total + 1

\* C16: search_documents skips a malformed row (one that is not an object,
\* has no id or a null id, or whose category has no name) and never aborts:
\* the summaries returned are those of the well-formed rows, in the order of
\* the backend, and total_count is their number.
C16_MalformedRowsSkipped ==
    data.fn = "parse_rows" =>
        LET rows == data.input
            well_formed == SelectSeq(rows, LAMBDA r : r.json = "object" /\ r.id = "present"
                                                     /\ r.category # "unnamed")
        IN  /\ ~data.output.raised
            /\ Len(data.output.results) = Len(well_formed)
            /\ \A i \in 1..Len(well_formed) : data.output.results[i].row = well_formed[i].n
            /\ data.output.total_count = Len(data.output.results)

\* C17: the filter conditions of search_documents are, in this order, one
\* title-contains condition iff query is non-empty, one
\* multi-select-contains condition per element of tags, and one
\* select-equals condition iff a category is given (neither None nor empty);
\* the payload has no filter for 0 conditions, the condition itself for 1,
\* and the AND-list of all of them for 2 or more.
C17_FilterShape ==
    data.fn = "search_filter" =>
        LET query == data.input.query
            tags == data.input.tags
            category == data.input.category
            conditions == data.output.conditions
            filter == data.output.filter
            q == IF query # "" THEN 1 ELSE 0
            c == IF category \notin {NoCategory, ""} THEN 1 ELSE 0
        IN  /\ Len(conditions) = q + Len(tags) + c
            /\ q = 1 => conditions[1] = [property |-> "Title", title_contains |-> query]
            /\ \A i \in 1..Len(tags) :
                  conditions[q + i] = [property |-> "Tags", multi_select_contains |-> tags[i]]
            /\ c = 1 => conditions[Len(conditions)] =
                            [property |-> "Category", select_equals |-> category]
            /\ Len(conditions) = 0 => filter = [key |-> "absent"]
            /\ Len(conditions) = 1 => filter = [key |-> "filter", condition |-> conditions[1]]
            /\ Len(conditions) >= 2 => filter = [key |-> "filter", and |-> conditions]

\* a query, the same tag twice and a category: four conditions in an AND-list
C17_Witness ==
    /\ data.fn = "search_filter"
    /\ data.input = [query |-> "q", tags |-> <<"x", "x">>, category |-> "Code"]
    /\ Len(data.output.filter.and) = 4

\* C18: sanitize_tags is idempotent: sanitizing its own output changes
\* nothing.
C18_SanitizeIdempotent ==
    data.fn = "sanitize_tags" => sanitize_tags(data.output) = data.output

\* C19: with an empty or whitespace-only title, and a content that has a
\* non-empty line, add_document goes on with the first non-empty line of the
\* content, cut to 100 characters with an ellipsis when longer; the title is
\* never empty.
C19_TitleFromContent ==
    data.fn = "add_document_title" =>
        LET content == data.input.content
            starts == {i \in 1..Len(content) :
                          /\ ~IsSpace(content[i])
                          /\ \A j \in 1..(i - 1) : IsSpace(content[j])}
            first == CHOOSE i \in starts : TRUE
            rest == SubSeq(content, first, Len(content))
            ends == {j \in 0..Len(rest) :
                          /\ j = Len(rest) \/ rest[j + 1] = "\n"
                          /\ \A k \in 1..j : rest[k] # "\n"}
            line == RStrip(SubSeq(rest, 1, CHOOSE j \in ends : TRUE))
        IN  /\ data.output # << >>
            /\ (Strip(data.input.title) = << >> /\ starts # {}) =>
                  data.output = IF Len(line) > MaxTitleLen
                                THEN SubSeq(line, 1, MaxTitleLen - 3) \o <<".", ".", ".">>
                                ELSE line

\* C20: validate_notion_page_id accepts a string if and only if, with its
\* hyphens removed, it is exactly 32 characters long and each of them is a
\* hexadecimal digit; a sign, a 0x prefix, an underscore or whitespace makes
\* it reject.
C20_PageIdAccepted ==
    data.fn = "validate_notion_page_id" =>
        LET clean_id == Remove(data.input, "-")
        IN  data.output = (Len(clean_id) = PageIdLen /\ AllHexDigits(clean_id))

\* C21: the content get_document returns is the renderings of the blocks
\* joined by a blank line, in the order the backend sent them, a block of
\* an unsupported type or whose rendering is empty or only whitespace
\* contributing nothing; and it is the placeholder "No content available"
\* if and only if no block contributes.
C21_ContentFromBlocks ==
    data.fn = "document_content" =>
        LET Contributes(block) ==
                /\ block.type \in SupportedTypes
                /\ Strip(block_text_content(block)) # << >>
            contributing == SelectSeq(data.input, Contributes)
            renderings == [i \in 1..Len(contributing) |->
                              block_text_content(contributing[i])]
        IN  /\ contributing # << >> => data.output = Join(renderings, BlankLine)
            /\ data.output = NoContentAvailable <=> contributing = << >>

\* C22: the category add_document writes to the backend and returns is one
\* of General, Code, Tutorial, Reference, Methodology, however the tool or
\* the client method is invoked, the category left out included.
C22_CategoryEnumerated ==
    data.fn = "add_document_category" => data.output \in DocumentCategories

\* C23: whatever limit a caller passes to search_documents, through the
\* tool or the client method, the page_size sent to the backend is in 1..100.
C23_PageSizeInRange ==
    data.fn = "search_page_size" => data.output \in 1..PageSizeCap

\* C24: every NotionAPIError the engine raises carries details: the error
\* body of the backend when the final attempt received a response (the
\* parsed JSON, or the text of a body that is not JSON), and a wrapping of
\* the message of the transport exception when the final attempt ended in a
\* timeout or a network error.
C24_DetailsPayload ==
    \A c \in Calls :
        (pc[c] = "raised" /\ result[c].type = "NotionAPIError") =>
            /\ hist[c].last_outcome = "response" =>
                  result[c].details \in {"error_body", "text_wrapper"}
            /\ hist[c].last_outcome \in {"timeout", "network"} =>
                  result[c].details = "exception_message"

\* C25: a call passes the pacing gate once, before its first attempt: it
\* is in the gate only at its beginning, it leaves the gate into attempt 0
\* and stamps the time of the last request then; a step that ends an attempt
\* in a backoff wait or begins a retry leaves that timestamp alone, and the
\* timestamp is written by no step but a call leaving the gate.
C25_GateOncePerCall ==
    [][\A c \in Calls :
          /\ pc'[c] = "pacing" => pc[c] \in {"idle", "pacing"}
          /\ (pc[c] \in {"idle", "pacing"} /\ pc'[c] = "request") =>
                /\ attempt'[c] = 0 /\ hist'[c].attempts = 1
                /\ since_last_request' = 0
          /\ (pc[c] # pc'[c] /\ "backoff" \in {pc[c], pc'[c]}) =>
                since_last_request' = since_last_request
          /\ since_last_request' < since_last_request =>
                \E d \in Calls : pc[d] \in {"idle", "pacing"} /\ pc'[d] = "request"
      ]_vars

\* a retry is in flight while another call sleeps in the gate
C25_Witness ==
    \E c, d \in Calls :
        /\ pc[c] = "request" /\ hist[c].attempts >= 2
        /\ pc[d] = "pacing"

\* C26: the latency sample a successful call folds into the running
\* average is the time its final attempt took, from the dispatch of that
\* attempt to its 200 response: the earlier attempts of the call and the
\* backoff waits between them are not in it.
C26_SampleOfFinalAttempt ==
    [][\A c \in Calls :
          (pc[c] = "request" /\ pc'[c] \in Terminal /\ hist'[c].last_status = 200) =>
              hist'[c].sample = hist[c].in_flight
      ]_vars

\* C27: _determine_retry_strategy returns one strategy for every status
\* code and hint: rate-limit backoff for 429; exponential backoff for a
\* status of 500 or more; no retry for 401, 403, 404, whatever the hint;
\* else exponential backoff for a hint that contains "timeout" or "network"
\* (in any case of the letters); else no retry.
C27_StrategyTotal ==
    data.fn = "determine_retry_strategy" =>
        LET status_code == data.input.status_code
            hint == data.input.error_type
            mentions == hint \in {"gateway_timeout", "Gateway_Timeout",
                                  "network_error", "NETWORK_ERROR"}
        IN  /\ data.output \in {NO_RETRY, EXPONENTIAL_BACKOFF, RATE_LIMIT_BACKOFF}
            /\ data.output =
                  IF status_code = 429 THEN RATE_LIMIT_BACKOFF
                  ELSE IF status_code >= 500 THEN EXPONENTIAL_BACKOFF
                  ELSE IF status_code \in {401, 403, 404} THEN NO_RETRY
                  ELSE IF mentions THEN EXPONENTIAL_BACKOFF
                  ELSE NO_RETRY

\* C28: the wait before the retry that follows attempt a (counted from 0)
\* is min(2^a, 60) seconds after a response of status 500 or more,
\* min(2^a, 30) seconds after a timeout or a network error, and after a 429
\* the value of Retry-After when the header is there, else 2^a seconds.
C28_BackoffDurations ==
    [][\A c \in Calls :
          (pc[c] = "request" /\ pc'[c] = "backoff") =>
              LET a == attempt[c]
                  h == hist'[c]
              IN  /\ h.last_outcome \in {"timeout", "network"} =>
                        sleep_left'[c] = Min(Pow2(a), 30) * TicksPerSecond
                  /\ (h.last_outcome = "response" /\ h.last_status >= 500) =>
                        sleep_left'[c] = Min(Pow2(a), 60) * TicksPerSecond
                  /\ (h.last_outcome = "response" /\ h.last_status = 429) =>
                        sleep_left'[c] =
                            (IF h.retry_after # << >> THEN IntValue(h.retry_after[1])
                             ELSE Pow2(a)) * TicksPerSecond
      ]_vars

\* the seventh attempt has timed out: the wait is 30 s where 2^6 is 64
C28_Witness ==
    /\ pc[1] = "backoff" /\ attempt[1] = 6
    /\ hist[1].last_outcome = "timeout"
    /\ sleep_left[1] = 30 * TicksPerSecond

\* C29 as stated: a response with a 4xx status other than 429 is never
\* followed by a retry, whatever the code of its body: the call whose latest
\* response is one of these has ended.
C29_ClientErrorNeverRetried ==
    \A c \in Calls :
        (hist[c].last_outcome = "response" /\ hist[c].last_status \in (400..499) \ {429})
            => pc[c] \in Terminal

\* C29 as amended: a response with status 401, 403 or 404 is never followed
\* by a retry; a response with another 4xx status other than 429 is
\* followed by one, after the wait of a server error, exactly when the code
\* of its body is a string that contains "timeout" or "network" (in any
\* case of the letters) and the budget is not used up; in every other case
\* the call ends on that attempt.
C29_ClientErrorRetriedOnHint ==
    [][\A c \in Calls :
          (/\ pc[c] = "request" /\ pc'[c] # "request"
           /\ hist'[c].last_outcome = "response"
           /\ hist'[c].last_status \in (400..499) \ {429}) =>
              LET mentions == hist'[c].code \in {"gateway_timeout", "Gateway_Timeout",
                                                 "network_error", "NETWORK_ERROR"}
              IN  IF /\ hist'[c].last_status \notin {401, 403, 404}
                     /\ mentions
                     /\ attempt[c] < max_retries[c]
                  THEN /\ pc'[c] = "backoff"
                       /\ sleep_left'[c] = Min(Pow2(attempt[c]), 60) * TicksPerSecond
                  ELSE pc'[c] \in Terminal
      ]_vars

\* a 400 whose body says "Gateway_Timeout" is being retried
C29_Witness ==
    \E c \in Calls :
        /\ pc[c] = "backoff"
        /\ hist[c].last_status = 400 /\ hist[c].code = "Gateway_Timeout"

====
